---- MODULE Spec2Model ----
(***************************************************************************)
(* Model of the data-acquisition and persistence core of LoL_predictor:    *)
(*   - the dual-copy update protocol of MatchBase (crawler/match_base.py)  *)
(*     as driven by scripts/run_db_update.py            -> SpecFiles       *)
(*   - the sliding-window refresh MatchBase.update_player over the        *)
(*     player_match_stats table (crawler/db_handler.py)  -> SpecStats       *)
(*   - MatchCrawler.run and FeatureBuilder.run over the players, matches   *)
(*     and player_features tables                        -> SpecCrawl       *)
(* Every specification starts the parts it does not use in an idle value   *)
(* and leaves them unchanged.                                              *)
(***************************************************************************)
EXTENDS Integers, Sequences, FiniteSets, TLC

VARIABLES
    \* ---- dual-copy protocol (SpecFiles) --------------------------------
    fpc,          \* position of scripts/run_db_update.py main()
    live,         \* the file at live_path
    update,       \* the file at update_path
    conn,         \* path mb.db's connection is open on: "live", "update", "none"
    stamp,        \* number of commits made so far (gives each commit a fresh value)
    runs,         \* number of times the script was started
    stagedLive,   \* history: the live file when copy_live_db was entered
    staleAtStage, \* history: the working file copy_live_db found
    published,    \* history: the consistent snapshots (previous ones and the one being promoted)
    writesSince,  \* history: commits since copy_live_db returned
    seen,         \* what the last concurrent reader of live_path found
    \* ---- sliding-window refresh (SpecStats) ----------------------------
    stats,        \* the rows of table player_match_stats
    scraped,      \* the players whose last_scraped is not NULL
    down,         \* upstream: the match ids whose detail request is answered non-200
    upc,          \* position of update_player: "idle", "loop"
    queue,        \* players update_all_players still has to refresh (head: the current one)
    ids,          \* the match-id listing of the current (or last) update_player call
    idx,          \* index into ids of the next match id of the for loop
    outcome,      \* how the last update_player call ended: "none", "returned", "raised"
    last,         \* the player of the last update_player call
    ever,         \* history: every row ever written to player_match_stats
    rerun,        \* history: the current (or last) call repeats the previous one's listing
    snapshot,     \* history: the player's rows when the repeated call started
    limitArg,     \* history: the limit of the current (or last) update_all_players (0: None)
    plan,         \* history: its local players (<<>> for a direct update_player call)
    calls,        \* history: the update_player calls it made that ended, and how
    \* ---- crawler and feature builder (SpecCrawl, SpecStore) -------------
    plist,        \* table players: the puuids in rowid (insertion) order
    scrapeSeq,    \* the players with last_scraped not NULL, by ascending last_scraped
    discovered,   \* the players with discovered = 1
    inMatch,      \* the players with in_match = 1 (committed)
    hasFeatures,  \* the players with has_features = 1
    tiered,       \* the players with tier not NULL
    pending,      \* players whose in_match = 1 update is executed but not yet committed
    mtab,         \* table matches: per match id, whether stored, puuids_json, vector_complete
    features,     \* table player_features: the puuids that have a row
    detail,       \* upstream: the detail of every match id
    target,       \* MatchCrawler's target_matches
    active,       \* the process running on the store: "none", "crawler", "builder"
    cpc,          \* position of MatchCrawler.run
    processed,    \* MatchCrawler.run's local processed
    batch,        \* MatchCrawler.run's local players
    bi,           \* index into batch of the current player
    cids,         \* MatchCrawler.run's local ids
    ci,           \* index into cids of the current match id
    pk,           \* index into metadata.participants of the insert loop
    bpc,          \* position of FeatureBuilder.run / process_match
    built,        \* FeatureBuilder.run's local processed
    cap,          \* FeatureBuilder.run's max_matches (0: None)
    bm,           \* the match process_match works on
    bk,           \* index into info["participants"] of process_match's loop
    starts,       \* operations on the store started so far
    rounds,       \* passes of MatchCrawler.run's while loop in this run
    kills,        \* history: for each run killed so far, where the builder stood
    \* ---- compute_label (SpecLabel) --------------------------------------
    linfo,        \* the match["info"] compute_label is called on
    label,        \* what the call gave: kind "none" before it, "value" num/den, "raised"
    \* ---- seed_players and verify_player (SpecSeed), on plist and scrapeSeq
    ladder,       \* upstream: the response to the listing request of every tier
    spc,          \* position of seed_players: "idle", "tiers", "insert"
    tiersArg,     \* seed_players' local tiers (after "tiers or [...]")
    ti,           \* index into tiers of the fetch loop
    all_puuids,   \* seed_players' local all_puuids
    seedOrdered,  \* seed_players' local ordered
    oi,           \* index into seedOrdered of the insert loop
    lastOp,       \* the operation that returned last: "none", "seed", "verify"
    tableBefore,  \* history: table players when the current (or last) operation began
    vid,          \* the puuid of the last verify_player call
    vdata,        \* what _safe_get gave the last verify_player call
    vcalls,       \* upstream requests the last verify_player call made
    vres,         \* what the last verify_player call returned
    sops,         \* seed_players and verify_player calls made so far
    \* ---- RiotAPIClient._safe_get (SpecNet, SpecNetFair) ------------------
    sem,          \* the free slots of self.sem
    fetch         \* per caller of _safe_get: position, slots its frames hold, answers to
                  \* come, history: the cooldown waits of the call

fileVars == <<fpc, live, update, conn, stamp, runs, stagedLive, staleAtStage,
              published, writesSince, seen>>

statVars == <<stats, scraped, down, upc, queue, ids, idx, outcome, last, ever,
              rerun, snapshot, limitArg, plan, calls>>

crawlVars == <<plist, scrapeSeq, discovered, inMatch, hasFeatures, tiered, pending,
               mtab, features, detail, target, active, cpc, processed, batch, bi, cids, ci,
               pk, bpc, built, cap, bm, bk, starts, rounds, kills>>

labelVars == <<linfo, label>>

seedVars == <<ladder, spc, tiersArg, ti, all_puuids, seedOrdered, oi, lastOp,
              tableBefore, vid, vdata, vcalls, vres, sops>>

\* the crawl variables other than the two columns seeding and verifying write
crawlOther == <<discovered, inMatch, hasFeatures, tiered, pending, mtab, features,
                detail, target, active, cpc, processed, batch, bi, cids, ci, pk, bpc,
                built, cap, bm, bk, starts, rounds, kills>>

netVars == <<sem, fetch>>

vars == <<fileVars, statVars, crawlVars, labelVars, seedVars, netVars>>

notFileVars == <<statVars, crawlVars, labelVars, seedVars, netVars>>

notStatVars == <<fileVars, crawlVars, labelVars, seedVars, netVars>>

notCrawlVars == <<fileVars, statVars, labelVars, seedVars, netVars>>

notLabelVars == <<fileVars, statVars, crawlVars, seedVars, netVars>>

notSeedVars == <<fileVars, statVars, labelVars, crawlOther, netVars>>

notNetVars == <<fileVars, statVars, crawlVars, labelVars, seedVars>>

(***************************************************************************)
(* Bounds                                                                  *)
(***************************************************************************)
\* pages of a complete database file
DbPages == 2
\* commits the update may make over all runs of the script
MaxWrites == 2
\* times the script is started (first start and restarts after a crash)
MaxRuns == 2
\* size of the sliding window: update_player requests count=10 ids and keeps
\* keep=10 rows (match_base.py lines 131 and 172); the model runs the same code
\* with the window scaled down to Keep
Keep == 2
\* match ids upstream knows (SpecCrawl)
NumCrawlMatches == 2
\* MatchCrawler's target_matches
Target == 2
\* MatchCrawler's matches_per_player
MatchesPerPlayer == 2
\* largest max_matches FeatureBuilder.run is started with
MaxBuild == 1

\* operations on the store (runs and direct calls) that are followed
MaxStarts == 3

\* passes of the crawler's while loop that are followed in one run
MaxRounds == 1

\* kills of a running process that are followed
MaxKills == 1

\* largest goldEarned of a participant (SpecLabel)
MaxGold == 3

\* entries of a tier listing (SpecSeed)
MaxListing == 2

\* seed_players and verify_player calls that are followed (SpecSeed)
MaxSeedOps == 2

\* RiotAPIClient(sem_limit=5): the slots of the semaphore, scaled down (SpecNet)
SemLimit == 2

\* concurrent callers of _safe_get (SpecNet)
NumFetches == 3

\* consecutive 429 answers one caller can get (SpecNet)
MaxRateLimits == 2

(***************************************************************************)
(* Files.  A file is absent, or exists with a sequence of pages; a copy in *)
(* progress has written a proper prefix of its source.                     *)
(***************************************************************************)
Absent == [exists |-> FALSE, pages |-> <<>>]

File(ps) == [exists |-> TRUE, pages |-> ps]

\* the database sqlite creates on an absent or zero-length file: schema only
EmptyDb == File([i \in 1..DbPages |-> 0])

\* a populated live database (page i holds i)
SeedDb == File([i \in 1..DbPages |-> i])

\* a working file left behind by an earlier update (differs from SeedDb)
StaleDb == File([i \in 1..DbPages |-> 100 + i])

\* the value the n-th commit writes into the page it changes
CommitValue(n) == 10 + n

Complete(f) == f.exists /\ Len(f.pages) = DbPages

FileAt(path) == IF path = "live" THEN live ELSE update

(***************************************************************************)
(* The parts a specification does not use stay in these values.            *)
(***************************************************************************)
\* SELECT puuid FROM players, in list order
StatPlayers == <<"p1", "p2">>

StatsStart ==
    /\ stats = {}
    /\ scraped = {}
    /\ upc = "idle"
    /\ queue = <<>>
    /\ ids = <<>>
    /\ idx = 1
    /\ outcome = "none"
    /\ last = StatPlayers[1]
    /\ ever = {}
    /\ rerun = FALSE
    /\ snapshot = {}
    /\ limitArg = 0
    /\ plan = <<>>
    /\ calls = <<>>

IdleStats == StatsStart /\ down = {}

IdleLabel ==
    /\ linfo = <<>>
    /\ label = [kind |-> "none", num |-> 0, den |-> 1]

\* _safe_get's return value for a response it does not pass on
None == [absent |-> TRUE]

SeedIdle ==
    /\ spc = "idle"
    /\ tiersArg = <<>>
    /\ ti = 1
    /\ all_puuids = <<>>
    /\ seedOrdered = <<>>
    /\ oi = 1
    /\ lastOp = "none"
    /\ tableBefore = <<>>
    /\ vid = 0
    /\ vdata = None
    /\ vcalls = 0
    /\ vres = FALSE
    /\ sops = 0

IdleSeed == ladder = <<>> /\ SeedIdle

IdleNet ==
    /\ sem = 0
    /\ fetch = <<>>

\* the parts added after the first three specifications, idle
IdleRest == IdleLabel /\ IdleSeed /\ IdleNet

CrawlerIdle ==
    /\ cpc = "idle"
    /\ processed = 0
    /\ batch = <<>>
    /\ bi = 1
    /\ cids = <<>>
    /\ ci = 1
    /\ pk = 1
    /\ rounds = 0

BuilderIdle ==
    /\ bpc = "idle"
    /\ built = 0
    /\ cap = 0
    /\ bm = 1
    /\ bk = 1

IdleCrawl ==
    /\ plist = <<>>
    /\ scrapeSeq = <<>>
    /\ discovered = {}
    /\ inMatch = {}
    /\ hasFeatures = {}
    /\ tiered = {}
    /\ pending = {}
    /\ mtab = <<>>
    /\ features = {}
    /\ detail = <<>>
    /\ target = 0
    /\ active = "none"
    /\ starts = 0
    /\ kills = <<>>
    /\ CrawlerIdle
    /\ BuilderIdle

(***************************************************************************)
(* DatabaseHandler.__init__: connect, CREATE TABLE IF NOT EXISTS, additive *)
(* migrations, indexes, commit.  On an absent or zero-length file sqlite   *)
(* creates the schema; on a complete file with the current schema nothing  *)
(* is written; on a truncated file the statements either fail ("database   *)
(* disk image is malformed") or find the schema in the pages that are      *)
(* there and write nothing.  The set of outcomes.                          *)
(***************************************************************************)
DatabaseHandler_init(f) ==
    IF ~f.exists \/ Len(f.pages) = 0
    THEN {[ok |-> TRUE, file |-> EmptyDb]}
    ELSE IF Complete(f)
         THEN {[ok |-> TRUE, file |-> f]}
         ELSE {[ok |-> TRUE, file |-> f], [ok |-> FALSE, file |-> f]}

\* os.path.exists(path) and os.remove(path)
RemoveIfExists(f) == IF f.exists THEN Absent ELSE f

\* shutil.copy opens the destination for writing: created or truncated
OpenTruncated == File(<<>>)

\* shutil.copy's next chunk: the destination grows by the source's next page
CopyChunkRewind(src, dst) == File(Append(dst.pages, src.pages[1]))

CopyChunk(src, dst) == File(Append(dst.pages, src.pages[Len(dst.pages) + 1]))

\* a committed write through the connection changes one page of its file
CommitTo(f, i) == File([f.pages EXCEPT ![i] = CommitValue(stamp + 1)])

\* run_db_update.py lines 74-75: mb.db is re-opened on the update path
PathNotSwitched == "live"

PathAfterSwitch == "update"

(***************************************************************************)
(* scripts/run_db_update.py main(), one action per step that a concurrent  *)
(* reader or a crash can observe.                                          *)
(***************************************************************************)
\* line 65: MatchBase(live_path, update_path) opens DatabaseHandler(live_path)
main_construct ==
    /\ UNCHANGED notFileVars
    /\ fpc = "start"
    /\ \E o \in DatabaseHandler_init(live) :
          IF o.ok
          THEN /\ live' = o.file
               /\ conn' = "live"
               /\ fpc' = "copy_remove"
          ELSE /\ fpc' = "failed"
               /\ conn' = "none"
               /\ live' = live
    /\ UNCHANGED <<update, stamp, runs, stagedLive, staleAtStage, published,
                   writesSince, seen>>

\* copy_live_db, lines 199-200: remove a stale working file
copy_live_db_remove ==
    /\ UNCHANGED notFileVars
    /\ fpc = "copy_remove"
    /\ stagedLive' = live
    /\ staleAtStage' = update
    /\ update' = RemoveIfExists(update)
    /\ fpc' = "copy_open"
    /\ UNCHANGED <<live, conn, stamp, runs, published, writesSince, seen>>

\* copy_live_db, line 201: shutil.copy(live_path, update_path) opens both files
copy_live_db_open ==
    /\ UNCHANGED notFileVars
    /\ fpc = "copy_open"
    /\ IF live.exists
       THEN update' = OpenTruncated /\ fpc' = "copy_write"
       ELSE update' = update /\ fpc' = "failed"
    /\ UNCHANGED <<live, conn, stamp, runs, stagedLive, staleAtStage, published,
                   writesSince, seen>>

\* copy_live_db, line 201: the copy loop; it returns when the source is exhausted
copy_live_db_write ==
    /\ UNCHANGED notFileVars
    /\ fpc = "copy_write"
    /\ IF Len(update.pages) < Len(live.pages)
       THEN /\ update' = CopyChunk(live, update)
            /\ UNCHANGED <<fpc, writesSince>>
       ELSE /\ fpc' = "switch"
            /\ writesSince' = 0
            /\ update' = update
    /\ UNCHANGED <<live, conn, stamp, runs, stagedLive, staleAtStage, published, seen>>

\* lines 74-75: mb.db.conn.close(); mb.db = DatabaseHandler(args.update_db)
main_switch ==
    /\ UNCHANGED notFileVars
    /\ fpc = "switch"
    /\ \E o \in DatabaseHandler_init(FileAt(PathAfterSwitch)) :
          IF o.ok
          THEN /\ conn' = PathAfterSwitch
               /\ fpc' = "update"
               /\ IF PathAfterSwitch = "live"
                  THEN live' = o.file /\ update' = update
                  ELSE update' = o.file /\ live' = live
          ELSE /\ conn' = "none"
               /\ fpc' = "failed"
               /\ UNCHANGED <<live, update>>
    /\ UNCHANGED <<stamp, runs, stagedLive, staleAtStage, published, writesSince, seen>>

\* line 78: one commit of update_all_players (insert_player_match,
\* delete_old_matches, mark_scraped each commit on mb.db.conn)
main_update_commit ==
    /\ UNCHANGED notFileVars
    /\ fpc = "update"
    /\ stamp < MaxWrites
    /\ \E i \in 1..Len(FileAt(conn).pages) :
          IF conn = "live"
          THEN live' = CommitTo(live, i) /\ update' = update
          ELSE update' = CommitTo(update, i) /\ live' = live
    /\ stamp' = stamp + 1
    /\ writesSince' = writesSince + 1
    /\ UNCHANGED <<fpc, conn, runs, stagedLive, staleAtStage, published, seen>>

\* lines 78-85: update_all_players returns; mb.db.conn.close()
main_update_done ==
    /\ UNCHANGED notFileVars
    /\ fpc = "update"
    /\ fpc' = "promote_remove"
    /\ conn' = "none"
    /\ UNCHANGED <<live, update, stamp, runs, stagedLive, staleAtStage, published,
                   writesSince, seen>>

\* promote_update_db, lines 206-207: remove the live file
promote_update_db_remove ==
    /\ UNCHANGED notFileVars
    /\ fpc = "promote_remove"
    /\ published' = published \cup {update}
    /\ live' = RemoveIfExists(live)
    /\ fpc' = "promote_open"
    /\ UNCHANGED <<update, conn, stamp, runs, stagedLive, staleAtStage, writesSince, seen>>

\* promote_update_db, line 208: shutil.copy(update_path, live_path) opens both files
promote_update_db_open ==
    /\ UNCHANGED notFileVars
    /\ fpc = "promote_open"
    /\ IF update.exists
       THEN live' = OpenTruncated /\ fpc' = "promote_write"
       ELSE live' = live /\ fpc' = "failed"
    /\ UNCHANGED <<update, conn, stamp, runs, stagedLive, staleAtStage, published,
                   writesSince, seen>>

\* promote_update_db, line 208: the copy loop
promote_update_db_write ==
    /\ UNCHANGED notFileVars
    /\ fpc = "promote_write"
    /\ IF Len(live.pages) < Len(update.pages)
       THEN live' = CopyChunk(update, live) /\ fpc' = fpc
       ELSE live' = live /\ fpc' = "reopen"
    /\ UNCHANGED <<update, conn, stamp, runs, stagedLive, staleAtStage, published,
                   writesSince, seen>>

\* line 87: mb.db = DatabaseHandler(args.db)
main_reopen ==
    /\ UNCHANGED notFileVars
    /\ fpc = "reopen"
    /\ \E o \in DatabaseHandler_init(live) :
          IF o.ok
          THEN live' = o.file /\ conn' = "live" /\ fpc' = "done"
          ELSE live' = live /\ conn' = "none" /\ fpc' = "failed"
    /\ UNCHANGED <<update, stamp, runs, stagedLive, staleAtStage, published,
                   writesSince, seen>>

\* the process is killed at any step; the files stay as they are
FileCrash ==
    /\ UNCHANGED notFileVars
    /\ fpc \notin {"done", "failed", "crashed"}
    /\ fpc' = "crashed"
    /\ conn' = "none"
    /\ UNCHANGED <<live, update, stamp, runs, stagedLive, staleAtStage, published,
                   writesSince, seen>>

\* the script is started again
FileRestart ==
    /\ UNCHANGED notFileVars
    /\ fpc \in {"done", "failed", "crashed"}
    /\ runs < MaxRuns
    /\ runs' = runs + 1
    /\ fpc' = "start"
    /\ UNCHANGED <<live, update, conn, stamp, stagedLive, staleAtStage, published,
                   writesSince, seen>>

\* a concurrent reader (the dashboard, the dataset loader) opens live_path
ReadLive ==
    /\ UNCHANGED notFileVars
    /\ seen' = live
    /\ UNCHANGED <<fpc, live, update, conn, stamp, runs, stagedLive, staleAtStage,
                   published, writesSince>>

InitFiles ==
    /\ fpc = "start"
    /\ live = SeedDb
    /\ update \in {Absent, StaleDb}
    /\ conn = "none"
    /\ stamp = 0
    /\ runs = 1
    /\ stagedLive = live
    /\ staleAtStage = update
    /\ published = {live}
    /\ writesSince = 0
    /\ seen = live
    /\ IdleStats
    /\ IdleCrawl
    /\ IdleRest

NextFiles ==
    \/ main_construct
    \/ copy_live_db_remove
    \/ copy_live_db_open
    \/ copy_live_db_write
    \/ main_switch
    \/ main_update_commit
    \/ main_update_done
    \/ promote_update_db_remove
    \/ promote_update_db_open
    \/ promote_update_db_write
    \/ main_reopen
    \/ FileCrash
    \/ FileRestart
    \/ ReadLive

SpecFiles == InitFiles /\ [][NextFiles]_vars

\* a caller of MatchBase calls promote_update_db() without copy_live_db()
\* before it, on whatever working file there is (none, or a stale one)
promote_update_db_call ==
    /\ UNCHANGED notFileVars
    /\ fpc = "copy_remove"
    /\ fpc' = "promote_remove"
    /\ UNCHANGED <<live, update, conn, stamp, runs, stagedLive, staleAtStage,
                   published, writesSince, seen>>

NextPromote ==
    \/ NextFiles
    \/ promote_update_db_call

\* the script, and direct calls of promote_update_db
SpecPromote == InitFiles /\ [][NextPromote]_vars

(***************************************************************************)
(* The sliding-window refresh: MatchBase.update_player and                  *)
(* update_all_players over table player_match_stats.                       *)
(***************************************************************************)
\* the match ids upstream knows: enough to overfill and to replace a whole window
NumMatches == Keep + 2

Matches == 1..NumMatches

\* upstream: the participants array of match m, as identities
Participants(m) == IF m <= 2 THEN {"p1", "p2"} ELSE {"p1"}

\* upstream: info["gameStartTimestamp"] of match m (distinct per match)
MatchTs(m) == 1000 + m

\* get_match_ids(session, puuid, count=10): the request's count parameter
MatchIdCount == Keep

\* what get_match_ids can return: up to count distinct match ids in any order
\* (the empty list also stands for a non-200 answer: "data or []")
Listings ==
    {l \in UNION {[1..k -> Matches] : k \in 0..MatchIdCount} :
        \A i, j \in DOMAIN l : i # j => l[i] # l[j]}

\* the row update_player builds from the detail of match m for player p
StatRow(p, m) == [puuid |-> p, match_id |-> m, timestamp |-> MatchTs(m)]

RowsOf(rows, p) == {r \in rows : r.puuid = p}

\* SELECT 1 FROM player_match_stats WHERE puuid=? AND match_id=?
StatExists(rows, p, m) == \E r \in rows : r.puuid = p /\ r.match_id = m

\* INSERT OR REPLACE INTO player_match_stats ...; commit
insert_player_match(rows, p, m, ts) ==
    {r \in rows : ~(r.puuid = p /\ r.match_id = m)}
        \cup {[puuid |-> p, match_id |-> m, timestamp |-> ts]}

\* SELECT rowid ... WHERE puuid=? ORDER BY timestamp DESC LIMIT keep
NewestRows(rows, p, keep) ==
    {r \in RowsOf(rows, p) :
        Cardinality({q \in RowsOf(rows, p) : q.timestamp > r.timestamp}) < keep}

\* a trim that deletes only the single oldest row of an over-full window
delete_oldest_one(rows, p, keep) ==
    IF Cardinality(RowsOf(rows, p)) <= keep
    THEN rows
    ELSE {r \in rows : r.puuid # p
                       \/ \E q \in RowsOf(rows, p) : q.timestamp < r.timestamp}

\* the DELETE without its "AND puuid=?": only the player's newest rows stay
delete_old_matches_any_player(rows, p, keep) ==
    {r \in rows : r \in NewestRows(rows, p, keep)}

\* DELETE FROM player_match_stats WHERE rowid NOT IN (newest keep) AND puuid=?
delete_old_matches(rows, p, keep) ==
    {r \in rows : ~(r.puuid = p /\ r \notin NewestRows(rows, p, keep))}

\* the states of upstream: no detail is refused, or the detail of one match is
DownStates == {{}} \cup {{m} : m \in Matches}

\* update_all_players(limit): players[:limit] when limit is truthy, else all
\* the exception leaves update_all_players: no later player is refreshed
AbortBatch(q) == <<>>

\* except Exception as e: the failure is logged and the for loop goes on
AfterFailure(q) == Tail(q)

\* history: a call update_all_players made for player p ended
Ended(p, how) ==
    IF plan = <<>> THEN calls ELSE Append(calls, [player |-> p, how |-> how])

update_all_players ==
    /\ UNCHANGED notStatVars
    /\ upc = "idle"
    /\ queue = <<>>
    /\ \E limit \in 0..Len(StatPlayers) :
          /\ queue' = IF limit # 0 THEN SubSeq(StatPlayers, 1, limit) ELSE StatPlayers
          /\ limitArg' = limit
    /\ plan' = queue'
    /\ calls' = <<>>
    /\ UNCHANGED <<stats, scraped, down, upc, ids, idx, outcome, last, ever,
                   rerun, snapshot>>

\* a caller invokes update_player(p) directly
call_update_player ==
    /\ UNCHANGED notStatVars
    /\ upc = "idle"
    /\ queue = <<>>
    /\ \E i \in 1..Len(StatPlayers) : queue' = <<StatPlayers[i]>>
    /\ limitArg' = 0
    /\ plan' = <<>>
    /\ calls' = <<>>
    /\ UNCHANGED <<stats, scraped, down, upc, ids, idx, outcome, last, ever,
                   rerun, snapshot>>

\* update_player lines 130-135: ids = await get_match_ids(...); if not ids: return 0
\* (a transport error raises out of the call).  With an empty listing the call
\* returns at once; the caller may then repeat it and get the same empty listing.
update_player_listing ==
    /\ UNCHANGED notStatVars
    /\ upc = "idle"
    /\ queue # <<>>
    /\ last' = Head(queue)
    /\ idx' = 1
    /\ \/ /\ outcome' = "raised"
          /\ queue' = AfterFailure(queue)
          /\ calls' = Ended(Head(queue), "raised")
          /\ rerun' = FALSE
          /\ snapshot' = {}
          /\ UNCHANGED <<ids, upc>>
       \/ \E l \in Listings :
             IF l = <<>>
             THEN /\ outcome' = "returned"
                  /\ queue' = Tail(queue)
                  /\ calls' = Ended(Head(queue), "returned")
                  /\ rerun' \in IF plan = <<>> THEN BOOLEAN ELSE {FALSE}
                  /\ snapshot' = IF rerun' THEN RowsOf(stats, Head(queue)) ELSE {}
                  /\ UNCHANGED <<ids, upc>>
             ELSE /\ ids' = l
                  /\ outcome' = "none"
                  /\ queue' = queue
                  /\ upc' = "loop"
                  /\ rerun' = FALSE
                  /\ snapshot' = {}
                  /\ UNCHANGED calls
    /\ UNCHANGED <<stats, scraped, down, ever, limitArg, plan>>

\* update_player lines 136-169: one pass of the for loop over ids
update_player_step ==
    /\ UNCHANGED notStatVars
    /\ upc = "loop"
    /\ idx <= Len(ids)
    /\ LET p == Head(queue)
           mid == ids[idx]
       IN  IF StatExists(stats, p, mid)
           THEN \* already stored: continue
                /\ idx' = idx + 1
                /\ UNCHANGED <<stats, ever, upc, queue, outcome, ids, calls>>
           ELSE \/ \* get_match_detail raises (transport error, malformed body)
                   /\ outcome' = "raised"
                   /\ upc' = "idle"
                   /\ queue' = AfterFailure(queue)
                   /\ calls' = Ended(p, "raised")
                   /\ ids' = <<>>
                   /\ idx' = 1
                   /\ UNCHANGED <<stats, ever>>
                \/ \* get_match_detail answers
                   /\ idx' = idx + 1
                   /\ UNCHANGED <<upc, queue, outcome, ids, calls>>
                   /\ IF mid \notin down /\ p \in Participants(mid)
                      THEN /\ stats' = insert_player_match(stats, p, mid, MatchTs(mid))
                           /\ ever' = ever \cup {StatRow(p, mid)}
                      ELSE UNCHANGED <<stats, ever>>
    /\ UNCHANGED <<scraped, down, last, rerun, snapshot, limitArg, plan>>

\* update_player lines 171-176: delete_old_matches, mark_scraped, return
update_player_finish ==
    /\ UNCHANGED notStatVars
    /\ upc = "loop"
    /\ idx > Len(ids)
    /\ stats' = delete_old_matches(stats, Head(queue), Keep)
    /\ scraped' = scraped \cup {Head(queue)}
    /\ outcome' = "returned"
    /\ upc' = "idle"
    /\ queue' = Tail(queue)
    /\ calls' = Ended(Head(queue), "returned")
    /\ ids' = IF rerun THEN ids ELSE <<>>
    /\ idx' = 1
    /\ UNCHANGED <<down, last, ever, rerun, snapshot, limitArg, plan>>

\* update_player returns as above and the caller invokes it again for the same
\* player; get_match_ids answers with the same listing
update_player_again ==
    /\ UNCHANGED notStatVars
    /\ upc = "loop"
    /\ idx > Len(ids)
    /\ plan = <<>>
    /\ stats' = delete_old_matches(stats, Head(queue), Keep)
    /\ scraped' = scraped \cup {Head(queue)}
    /\ rerun' = TRUE
    /\ snapshot' = RowsOf(stats', Head(queue))
    /\ idx' = 1
    /\ UNCHANGED <<down, upc, queue, ids, outcome, last, ever, limitArg, plan, calls>>

IdleFiles ==
    /\ fpc = "start"
    /\ live = SeedDb
    /\ update = Absent
    /\ conn = "none"
    /\ stamp = 0
    /\ runs = 1
    /\ stagedLive = live
    /\ staleAtStage = update
    /\ published = {live}
    /\ writesSince = 0
    /\ seen = live

InitStats ==
    StatsStart /\ down \in DownStates /\ IdleFiles /\ IdleCrawl /\ IdleRest

NextStats ==
    \/ update_all_players
    \/ call_update_player
    \/ update_player_listing
    \/ update_player_again
    \/ update_player_step
    \/ update_player_finish

SpecStats == InitStats /\ [][NextStats]_vars

(***************************************************************************)
(* MatchCrawler.run and FeatureBuilder.run over the tables players,        *)
(* matches and player_features.  One process at a time runs on the store;  *)
(* it may be killed at any step, which loses what it has not committed.    *)
(***************************************************************************)
ROLES_ORDER == <<"TOP", "JUNGLE", "MIDDLE", "BOTTOM", "UTILITY">>

\* MatchCrawler.run: the queue type kept (ranked solo queue)
RankedSoloQueue == 420

\* MatchCrawler.run: the length an ordered participant list must have
TeamSlots == 10

\* MatchCrawler.run: player_batches(limit=5)
BatchLimit == 5

CrawlMatches == 1..NumCrawlMatches

\* upstream: the puuid in slot i of the participants array of match m
\* (consecutive matches share nine players)
PuuidOf(m, i) == (m - 1) + i

\* the ladder player the players table is seeded with
SeedPlayers == <<PuuidOf(1, 6)>>

Side(team, roles) == [i \in 1..Len(roles) |-> <<team, roles[i]>>]

\* the (teamId, teamPosition) assignments upstream returns for the ten slots
ShapeCanonical == Side(100, ROLES_ORDER) \o Side(200, ROLES_ORDER)

ShapeShuffled ==
    Side(200, <<"UTILITY", "BOTTOM", "MIDDLE", "JUNGLE", "TOP">>)
        \o Side(100, <<"MIDDLE", "TOP", "UTILITY", "JUNGLE", "BOTTOM">>)

\* one participant without a position: 9 resolvable participants
ShapeBlankRole ==
    Side(100, <<"TOP", "JUNGLE", "", "BOTTOM", "UTILITY">>) \o Side(200, ROLES_ORDER)

\* a role twice and a role missing on the blue side
ShapeRepeatedRole ==
    Side(100, <<"TOP", "TOP", "MIDDLE", "BOTTOM", "UTILITY">>) \o Side(200, ROLES_ORDER)

\* six participants on team 100, four on team 200
ShapeUneven ==
    Side(100, ROLES_ORDER) \o Side(100, <<"TOP">>)
        \o Side(200, <<"JUNGLE", "MIDDLE", "BOTTOM", "UTILITY">>)

Shapes == {ShapeCanonical, ShapeShuffled, ShapeBlankRole, ShapeRepeatedRole, ShapeUneven}

\* info["teams"]: the entry of team first, then the other one; won says
\* whether the first entry is the winner
TeamsOf(first, won) ==
    <<[teamId |-> first, win |-> won], [teamId |-> 300 - first, win |-> ~won]>>

\* match["info"] as upstream returns it for match m: blue listed first and
\* the winner, one unit of gold for every participant
MatchInfo(m, qid, shape) ==
    [queueId |-> qid,
     teams |-> TeamsOf(100, TRUE),
     participants |-> [i \in 1..Len(shape) |->
                          [puuid |-> PuuidOf(m, i),
                           teamId |-> shape[i][1],
                           teamPosition |-> shape[i][2],
                           goldEarned |-> 1]]]

Details(m) ==
    {MatchInfo(m, RankedSoloQueue, sh) : sh \in Shapes}
        \cup {MatchInfo(m, 400, ShapeCanonical)}

\* a ranked detail with the teams array in either order and either winner
TeamsDetails(m) ==
    {[MatchInfo(m, RankedSoloQueue, ShapeCanonical) EXCEPT !.teams = TeamsOf(a, w)] :
        a \in {100, 200}, w \in BOOLEAN}

\* a ranked detail with nine participants
WrongCount(m) == {MatchInfo(m, RankedSoloQueue, SubSeq(ShapeCanonical, 1, 9))}

\* a ranked detail whose info has no "teams", and one whose info has no
\* "participants"
FieldsMissing(m) ==
    LET full == MatchInfo(m, RankedSoloQueue, ShapeCanonical)
    IN  {[queueId |-> full.queueId, participants |-> full.participants],
         [queueId |-> full.queueId, teams |-> full.teams]}

\* every detail upstream may answer with for match m
UpstreamDetails(m) ==
    Details(m) \cup TeamsDetails(m) \cup WrongCount(m) \cup FieldsMissing(m)

\* match["metadata"]["participants"]: the puuids of the participants
MetadataParticipants(info) ==
    [i \in 1..Len(info.participants) |-> info.participants[i].puuid]

\* the puuids, in array order, of the participants of one team in one role
OfTeamRole(players, team, role) ==
    LET Hit(q) == q.teamId = team /\ q.teamPosition = role
        sel == SelectSeq(players, Hit)
    IN  [i \in 1..Len(sel) |-> sel[i].puuid]

\* the outer loop of order_puuids_by_role over the first n roles
RECURSIVE TeamByRole(_, _, _)
TeamByRole(players, team, n) ==
    IF n = 0
    THEN <<>>
    ELSE TeamByRole(players, team, n - 1)
             \o OfTeamRole(players, team, ROLES_ORDER[n])

\* order_puuids_by_role(players): blue + red
order_puuids_by_role(players) ==
    TeamByRole(players, 100, Len(ROLES_ORDER))
        \o TeamByRole(players, 200, Len(ROLES_ORDER))

\* sum(p["goldEarned"] for p in info["participants"] if p["teamId"] == team)
RECURSIVE GoldOfTeam(_, _)
GoldOfTeam(players, team) ==
    IF players = <<>>
    THEN 0
    ELSE (IF Head(players).teamId = team THEN Head(players).goldEarned ELSE 0)
             + GoldOfTeam(Tail(players), team)

\* teams = info["teams"]; win100 = teams[0]["win"]
win100(info) == info.teams[1].win

\* compute_label raises: KeyError without "teams", IndexError on an empty
\* teams array, ZeroDivisionError when no gold was earned
LabelRaises(info) ==
    \/ "teams" \notin DOMAIN info
    \/ info.teams = <<>>
    \/ GoldOfTeam(info.participants, 100) + GoldOfTeam(info.participants, 200) = 0

\* the two weights exchanged
compute_label_swapped(info) ==
    LET gold100 == GoldOfTeam(info.participants, 100)
        gold200 == GoldOfTeam(info.participants, 200)
        win_flag == IF win100(info) THEN 1 ELSE 0
    IN  IF LabelRaises(info)
        THEN [kind |-> "raised", num |-> 0, den |-> 1]
        ELSE [kind |-> "value",
              num |-> 45 * gold100 + 55 * win_flag * (gold100 + gold200),
              den |-> 100 * (gold100 + gold200)]

\* compute_label(info): 0.55 * gold100 / (gold100 + gold200) + 0.45 * win_flag,
\* with win100 = teams[0]["win"]
compute_label(info) ==
    LET gold100 == GoldOfTeam(info.participants, 100)
        gold200 == GoldOfTeam(info.participants, 200)
        win_flag == IF win100(info) THEN 1 ELSE 0
    IN  IF LabelRaises(info)
        THEN [kind |-> "raised", num |-> 0, den |-> 1]
        ELSE [kind |-> "value",
              num |-> 55 * gold100 + 45 * win_flag * (gold100 + gold200),
              den |-> 100 * (gold100 + gold200)]

\* every queue type is kept
QueueUnchecked(info) == TRUE

\* if info.get("queueId") != 420: continue
QueueAccepted(info) == info.queueId = RankedSoloQueue

\* if len(ordered) != 10: continue
OrderedAccepted(ordered) == Len(ordered) = TeamSlots

\* what get_match_ids can return to the crawler: up to matches_per_player
\* distinct match ids in any order
CrawlListings ==
    {l \in UNION {[1..k -> CrawlMatches] : k \in 0..MatchesPerPlayer} :
        \A i, j \in DOMAIN l : i # j => l[i] # l[j]}

InSeq(seq, x) == \E i \in DOMAIN seq : seq[i] = x

Without(seq, x) ==
    LET Keep1(q) == q # x IN SelectSeq(seq, Keep1)

Least(a, b) == IF a <= b THEN a ELSE b

NoLabel == [kind |-> "none", num |-> 0, den |-> 1]

NoMatch == [stored |-> FALSE, puuids |-> <<>>, label |-> NoLabel,
            winner_side |-> "none", vector_complete |-> FALSE]

\* SELECT COUNT(*) FROM matches
match_count(tab) == Cardinality({m \in CrawlMatches : tab[m].stored})

\* no match id is ever found stored
match_exists_never(tab, mid) == FALSE

\* SELECT 1 FROM matches WHERE match_id=?
match_exists(tab, mid) == tab[mid].stored

\* insert_match: the first teams entry with win set decides the side
\* (None when no entry has it)
RECURSIVE winner_side_from(_)
winner_side_from(teams) ==
    IF teams = <<>>
    THEN "none"
    ELSE IF Head(teams).win /\ Head(teams).teamId = 100
         THEN "blue"
         ELSE IF Head(teams).win /\ Head(teams).teamId = 200
              THEN "red"
              ELSE winner_side_from(Tail(teams))

\* teams = info.get("teams", []) or []
winner_side(info) ==
    winner_side_from(IF "teams" \in DOMAIN info THEN info.teams ELSE <<>>)

\* INSERT OR REPLACE INTO matches (match_id, ..., puuids_json, label, ...):
\* the row is replaced whole; vector_complete is not in the column list and
\* takes its default 0
insert_match(tab, mid, info, ordered, lbl) ==
    [tab EXCEPT ![mid] = [stored |-> TRUE, puuids |-> ordered, label |-> lbl,
                          winner_side |-> winner_side(info),
                          vector_complete |-> FALSE]]

\* UPDATE matches SET vector_complete=1 WHERE match_id=?
mark_complete(tab, mid) ==
    IF tab[mid].stored
    THEN [tab EXCEPT ![mid].vector_complete = TRUE]
    ELSE tab

\* a plain INSERT: a row is added whether or not the puuid has one
insert_player_always(pl, q) == Append(pl, q)

\* INSERT OR IGNORE INTO players(puuid, tier, discovered)
insert_player(pl, q) == IF InSeq(pl, q) THEN pl ELSE Append(pl, q)

\* the refreshed players come first
player_batches_refreshed_first(limit) ==
    LET Never(q) == ~InSeq(scrapeSeq, q)
        all == scrapeSeq \o SelectSeq(plist, Never)
    IN  SubSeq(all, 1, Least(limit, Len(all)))

\* SELECT puuid FROM players ORDER BY last_scraped IS NULL DESC, last_scraped ASC
\* LIMIT ?  (rows with NULL last_scraped come in rowid order)
player_batches(limit) ==
    LET Never(q) == ~InSeq(scrapeSeq, q)
        all == SelectSeq(plist, Never) \o scrapeSeq
    IN  SubSeq(all, 1, Least(limit, Len(all)))

\* UPDATE players SET last_scraped=time.time() WHERE puuid=?
mark_scraped(seq, q) ==
    IF InSeq(plist, q) THEN Append(Without(seq, q), q) ELSE seq

\* SELECT match_id FROM matches WHERE vector_complete IS NULL OR vector_complete=0
\* LIMIT 1: any of the incomplete matches
Unprocessed == {m \in CrawlMatches : mtab[m].stored /\ ~mtab[m].vector_complete}

\* the loop left after its first participant
ParticipantsDoneEarly(info, k) == k > 1

\* process_match: the for loop over info["participants"] is exhausted
ParticipantsDone(info, k) == k > Len(info.participants)

playerVars == <<plist, scrapeSeq, discovered, inMatch, hasFeatures, tiered>>

crawlerLocals == <<cpc, processed, batch, bi, cids, ci, pk, rounds>>

builderLocals == <<bpc, built, cap, bm, bk>>

\* the process ends (returns, or is killed): its locals are gone
CrawlerGone ==
    /\ cpc' = "idle"
    /\ processed' = 0
    /\ batch' = <<>>
    /\ bi' = 1
    /\ cids' = <<>>
    /\ ci' = 1
    /\ pk' = 1
    /\ rounds' = 0

BuilderGone ==
    /\ bpc' = "idle"
    /\ built' = 0
    /\ cap' = 0
    /\ bm' = 1
    /\ bk' = 1

\* MatchCrawler.run starts: processed = self.db.match_count()
crawler_start ==
    /\ UNCHANGED <<notCrawlVars, kills>>
    /\ active = "none"
    /\ starts < MaxStarts
    /\ starts' = starts + 1
    /\ active' = "crawler"
    /\ processed' = match_count(mtab)
    /\ cpc' = "head"
    /\ UNCHANGED <<playerVars, pending, mtab, features, detail, target, batch, bi, cids,
                   ci, pk, rounds, builderLocals>>

\* while processed < self.target: players = player_batches(limit=5);
\* if not players: break
\* (capped: the passes of one run are followed up to MaxRounds)
CrawlerHead(capped) ==
    /\ UNCHANGED <<notCrawlVars, kills>>
    /\ active = "crawler"
    /\ cpc = "head"
    /\ IF processed < target /\ player_batches(BatchLimit) # <<>>
       THEN /\ capped => rounds < MaxRounds
            /\ rounds' = IF capped THEN rounds + 1 ELSE rounds
            /\ batch' = player_batches(BatchLimit)
            /\ bi' = 1
            /\ cpc' = "player"
            /\ UNCHANGED <<active, processed, cids, ci, pk>>
       ELSE /\ active' = "none"
            /\ CrawlerGone
    /\ UNCHANGED <<playerVars, pending, mtab, features, detail, target, starts, builderLocals>>

crawler_head == CrawlerHead(TRUE)

\* the same step with every pass of the loop followed
crawler_loop == CrawlerHead(FALSE)

\* for puuid in players: ids = await get_match_ids(puuid, count=mpp);
\* after the last player, processed = self.db.match_count()
crawler_player ==
    /\ UNCHANGED <<notCrawlVars, kills>>
    /\ active = "crawler"
    /\ cpc = "player"
    /\ IF bi <= Len(batch)
       THEN /\ \E l \in CrawlListings : cids' = l
            /\ ci' = 1
            /\ cpc' = "ids"
            /\ UNCHANGED <<processed, batch, bi>>
       ELSE /\ processed' = match_count(mtab)
            /\ batch' = <<>>
            /\ bi' = 1
            /\ cpc' = "head"
            /\ UNCHANGED <<cids, ci>>
    /\ UNCHANGED <<active, playerVars, pending, mtab, features, detail, target, starts, pk,
                   rounds, builderLocals>>

\* continue: on to the next match id of the listing
CrawlerSkips ==
    /\ ci' = ci + 1
    /\ UNCHANGED <<active, mtab, processed, cpc, pk, batch, bi, cids, rounds>>

\* an exception no handler catches leaves run(): nothing is stored
CrawlerRaises ==
    /\ active' = "none"
    /\ CrawlerGone
    /\ UNCHANGED mtab

\* for mid in ids: the body up to insert_match; after the last id,
\* mark_scraped(puuid)
crawler_match ==
    /\ UNCHANGED <<notCrawlVars, kills>>
    /\ active = "crawler"
    /\ cpc = "ids"
    /\ IF ci <= Len(cids)
       THEN /\ LET mid == cids[ci]
                   info == detail[mid]
                   ordered == order_puuids_by_role(info.participants)
                   lbl == compute_label(info)
               IN  IF match_exists(mtab, mid)
                   THEN CrawlerSkips
                   ELSE \/ \* get_match_detail returned nothing usable
                           CrawlerSkips
                        \/ IF ~QueueAccepted(info)
                           THEN CrawlerSkips
                           ELSE IF "participants" \notin DOMAIN info
                           THEN CrawlerRaises
                           ELSE IF ~OrderedAccepted(ordered)
                           THEN CrawlerSkips
                           ELSE IF lbl.kind = "raised"
                           THEN CrawlerRaises
                           ELSE /\ mtab' = insert_match(mtab, mid, info, ordered, lbl)
                                /\ processed' = match_count(mtab')
                                /\ pk' = 1
                                /\ cpc' = "players"
                                /\ UNCHANGED <<active, batch, bi, cids, ci, rounds>>
            /\ UNCHANGED scrapeSeq
       ELSE /\ scrapeSeq' = mark_scraped(scrapeSeq, batch[bi])
            /\ bi' = bi + 1
            /\ cids' = <<>>
            /\ ci' = 1
            /\ cpc' = "player"
            /\ UNCHANGED <<active, mtab, processed, pk, batch, rounds>>
    /\ UNCHANGED <<plist, discovered, inMatch, hasFeatures, tiered,
                   pending, features, detail, target, starts, builderLocals>>

\* for pid in match["metadata"]["participants"]: insert_player(pid, discovered=1)
\* commits (and with it the previous participant's in_match update), then
\* UPDATE players SET in_match=1 is left uncommitted; after the last
\* participant, self.db.conn.commit()
crawler_insert_player ==
    /\ UNCHANGED <<notCrawlVars, kills>>
    /\ active = "crawler"
    /\ cpc = "players"
    /\ LET pids == MetadataParticipants(detail[cids[ci]])
       IN  IF pk <= Len(pids)
           THEN /\ plist' = insert_player(plist, pids[pk])
                /\ discovered' = IF InSeq(plist, pids[pk])
                                 THEN discovered
                                 ELSE discovered \cup {pids[pk]}
                /\ inMatch' = inMatch \cup pending
                /\ pending' = {pids[pk]}
                /\ pk' = pk + 1
                /\ UNCHANGED <<ci, cpc>>
           ELSE /\ inMatch' = inMatch \cup pending
                /\ pending' = {}
                /\ pk' = 1
                /\ ci' = ci + 1
                /\ cpc' = "ids"
                /\ UNCHANGED <<plist, discovered>>
    /\ UNCHANGED <<active, scrapeSeq, hasFeatures, tiered, mtab, features, detail, target,
                   starts, processed, batch, bi, cids, rounds, builderLocals>>

\* FeatureBuilder.run starts; max_matches is None (0 here) or a cap
builder_start ==
    /\ UNCHANGED <<notCrawlVars, kills>>
    /\ active = "none"
    /\ starts < MaxStarts
    /\ starts' = starts + 1
    /\ active' = "builder"
    /\ cap' \in 0..MaxBuild
    /\ built' = 0
    /\ bpc' = "next"
    /\ UNCHANGED <<playerVars, pending, mtab, features, detail, target, crawlerLocals,
                   bm, bk>>

\* while True: match_id = next_unprocessed_match(); if not match_id: break;
\* process_match up to its loop: detail unavailable -> return False -> continue
builder_next ==
    /\ UNCHANGED <<notCrawlVars, kills>>
    /\ active = "builder"
    /\ bpc = "next"
    /\ IF Unprocessed = {}
       THEN /\ active' = "none"
            /\ BuilderGone
       ELSE \E m \in Unprocessed :
              \/ /\ bpc' = "skip"
                 /\ UNCHANGED <<active, built, cap, bm, bk>>
              \/ /\ bm' = m
                 /\ bk' = 1
                 /\ bpc' = "statics"
                 /\ UNCHANGED <<active, built, cap>>
    /\ UNCHANGED <<playerVars, pending, mtab, features, detail, target, starts, crawlerLocals>>

\* process_match returned False: print("skipping"); continue
builder_skip ==
    /\ UNCHANGED <<notCrawlVars, kills>>
    /\ active = "builder"
    /\ bpc = "skip"
    /\ bpc' = "next"
    /\ UNCHANGED <<active, playerVars, pending, mtab, features, detail, target, starts,
                   crawlerLocals, built, cap, bm, bk>>

\* process_match, one participant: static = get_cached_static(puuid) or
\* fetch_remote_statics(puuid), then UPDATE players SET tier, last_scraped; commit
builder_statics ==
    /\ UNCHANGED <<notCrawlVars, kills>>
    /\ active = "builder"
    /\ bpc = "statics"
    /\ LET q == detail[bm].participants[bk].puuid
       IN  IF q \in features
           THEN UNCHANGED <<tiered, scrapeSeq>>
           ELSE /\ tiered' = IF InSeq(plist, q) THEN tiered \cup {q} ELSE tiered
                /\ scrapeSeq' = mark_scraped(scrapeSeq, q)
    /\ bpc' = "feature"
    /\ UNCHANGED <<active, plist, discovered, inMatch, hasFeatures, pending, mtab,
                   features, detail, target, starts, crawlerLocals, built, cap, bm, bk>>

\* process_match, one participant: INSERT OR REPLACE INTO player_features;
\* UPDATE players SET has_features=1; commit
builder_feature ==
    /\ UNCHANGED <<notCrawlVars, kills>>
    /\ active = "builder"
    /\ bpc = "feature"
    /\ LET q == detail[bm].participants[bk].puuid
       IN  /\ features' = features \cup {q}
           /\ hasFeatures' = IF InSeq(plist, q)
                             THEN hasFeatures \cup {q}
                             ELSE hasFeatures
    /\ bk' = bk + 1
    /\ bpc' = IF ParticipantsDone(detail[bm], bk + 1) THEN "mark" ELSE "statics"
    /\ UNCHANGED <<active, plist, scrapeSeq, discovered, inMatch, tiered, pending,
                   mtab, detail, target, starts, crawlerLocals, built, cap, bm>>

\* process_match: self.mark_complete(match_id); back in run: count += 1;
\* if max_matches and count >= max_matches: break
builder_mark ==
    /\ UNCHANGED <<notCrawlVars, kills>>
    /\ active = "builder"
    /\ bpc = "mark"
    /\ mtab' = mark_complete(mtab, bm)
    /\ IF cap # 0 /\ built + 1 >= cap
       THEN /\ active' = "none"
            /\ BuilderGone
       ELSE /\ built' = built + 1
            /\ bm' = 1
            /\ bk' = 1
            /\ bpc' = "next"
            /\ UNCHANGED <<active, cap>>
    /\ UNCHANGED <<playerVars, pending, features, detail, target, starts, crawlerLocals>>

\* the running process is killed: its uncommitted update and its locals are lost
Interrupt ==
    /\ UNCHANGED notCrawlVars
    /\ active # "none"
    /\ Len(kills) < MaxKills
    /\ kills' = Append(kills, [proc |-> active, at |-> bpc, match |-> bm,
                               k |-> bk])
    /\ active' = "none"
    /\ pending' = {}
    /\ CrawlerGone
    /\ BuilderGone
    /\ UNCHANGED <<playerVars, mtab, features, detail, target, starts>>

\* a caller of the store inserts a match row directly (DatabaseHandler.insert_match)
api_insert_match ==
    /\ UNCHANGED <<notCrawlVars, kills>>
    /\ active = "none"
    /\ starts < MaxStarts
    /\ starts' = starts + 1
    /\ \E m \in CrawlMatches :
         mtab' = insert_match(mtab, m, detail[m],
                              order_puuids_by_role(detail[m].participants),
                              compute_label(detail[m]))
    /\ UNCHANGED <<active, playerVars, pending, features, detail, target, crawlerLocals,
                   builderLocals>>

\* a caller of the store marks a match directly (FeatureBuilder.mark_complete)
api_mark_complete ==
    /\ UNCHANGED <<notCrawlVars, kills>>
    /\ active = "none"
    /\ starts < MaxStarts
    /\ starts' = starts + 1
    /\ \E m \in CrawlMatches : mtab' = mark_complete(mtab, m)
    /\ UNCHANGED <<active, playerVars, pending, features, detail, target, crawlerLocals,
                   builderLocals>>

InitCrawl ==
    /\ IdleFiles
    /\ IdleStats
    /\ IdleRest
    /\ plist = SeedPlayers
    /\ scrapeSeq = <<>>
    /\ discovered = {}
    /\ inMatch = {}
    /\ hasFeatures = {}
    /\ tiered = {}
    /\ pending = {}
    /\ mtab = [m \in CrawlMatches |-> NoMatch]
    /\ features = {}
    /\ detail \in [CrawlMatches -> UNION {Details(m) : m \in CrawlMatches}]
    /\ \A m \in CrawlMatches : detail[m] \in Details(m)
    /\ target = Target
    /\ active = "none"
    /\ starts = 0
    /\ kills = <<>>
    /\ CrawlerIdle
    /\ BuilderIdle

NextCrawl ==
    \/ crawler_start
    \/ crawler_head
    \/ crawler_player
    \/ crawler_match
    \/ crawler_insert_player
    \/ builder_start
    \/ builder_next
    \/ builder_skip
    \/ builder_statics
    \/ builder_feature
    \/ builder_mark
    \/ Interrupt

SpecCrawl == InitCrawl /\ [][NextCrawl]_vars

NextStore ==
    \/ NextCrawl
    \/ api_insert_match
    \/ api_mark_complete

SpecStore == InitCrawl /\ [][NextStore]_vars

\* the runs left alone: no kill, every pass of the crawler's loop followed
NextRuns ==
    \/ crawler_start
    \/ crawler_loop
    \/ crawler_player
    \/ crawler_match
    \/ crawler_insert_player
    \/ builder_start
    \/ builder_next
    \/ builder_skip
    \/ builder_statics
    \/ builder_feature
    \/ builder_mark

\* a run that can take a step takes one
SpecRunsFair == InitCrawl /\ [][NextRuns]_vars /\ WF_vars(NextRuns)

(***************************************************************************)
(* MatchCrawler.run alone, for every target up to Target and an upstream   *)
(* that may answer any detail: well formed with the teams array in either  *)
(* order, of another queue, with unresolvable roles, with nine             *)
(* participants, or with a required field missing.                         *)
(***************************************************************************)
InitUpstream ==
    /\ IdleFiles
    /\ IdleStats
    /\ IdleRest
    /\ plist = SeedPlayers
    /\ scrapeSeq = <<>>
    /\ discovered = {}
    /\ inMatch = {}
    /\ hasFeatures = {}
    /\ tiered = {}
    /\ pending = {}
    /\ mtab = [m \in CrawlMatches |-> NoMatch]
    /\ features = {}
    /\ detail \in [CrawlMatches -> UNION {UpstreamDetails(m) : m \in CrawlMatches}]
    /\ \A m \in CrawlMatches : detail[m] \in UpstreamDetails(m)
    /\ target \in 1..Target
    /\ active = "none"
    /\ starts = 0
    /\ kills = <<>>
    /\ CrawlerIdle
    /\ BuilderIdle

NextUpstream ==
    \/ crawler_start
    \/ crawler_head
    \/ crawler_player
    \/ crawler_match
    \/ crawler_insert_player

SpecUpstream == InitUpstream /\ [][NextUpstream]_vars

(***************************************************************************)
(* compute_label on a match detail.  The label is kept as the exact        *)
(* fraction num/den of the float expression 0.55 * ratio + 0.45 * win_flag. *)
(***************************************************************************)
Golds == 0..MaxGold

\* info["teams"]: the two entries in either order, one of them the winner
TeamsArrays ==
    {<<[teamId |-> a, win |-> w], [teamId |-> 300 - a, win |-> ~w]>> :
        a \in {100, 200}, w \in BOOLEAN}

\* info["participants"]: two participants a side, on alternating sides
LabelParticipants ==
    {[i \in 1..4 |-> [teamId |-> IF i % 2 = 1 THEN 100 ELSE 200,
                      goldEarned |-> g[i]]] : g \in [1..4 -> Golds]}

LabelInputs ==
    {[teams |-> t, participants |-> ps] : t \in TeamsArrays, ps \in LabelParticipants}

\* label = compute_label(info)
call_compute_label ==
    /\ UNCHANGED notLabelVars
    /\ label.kind = "none"
    /\ label' = compute_label(linfo)
    /\ UNCHANGED linfo

InitLabel ==
    /\ IdleFiles
    /\ IdleStats
    /\ IdleCrawl
    /\ IdleSeed
    /\ IdleNet
    /\ linfo \in LabelInputs
    /\ label = [kind |-> "none", num |-> 0, den |-> 1]

NextLabel == call_compute_label

SpecLabel == InitLabel /\ [][NextLabel]_vars

(***************************************************************************)
(* MatchBase.seed_players and MatchBase.verify_player on the players table *)
(***************************************************************************)
\* get_all_tier_puuids / seed_players: the default tiers
Tiers == <<"challenger", "grandmaster", "master">>

TierNames == {Tiers[i] : i \in DOMAIN Tiers}

\* the identities the ladders list
LadderIds == {PuuidOf(1, 6), PuuidOf(1, 7)}

\* the identities verify_player is asked about
VerifyIds == LadderIds \cup {PuuidOf(1, 8)}

\* listings whose entries all carry a puuid
PuuidListings ==
    UNION {[1..n -> {[puuid |-> q] : q \in LadderIds}] : n \in 0..MaxListing}

\* an empty JSON object
EmptyBody == [empty |-> TRUE]

\* a JSON object without the key "entries"
NoEntriesBody == [tier |-> "CHALLENGER"]

\* a listing with an entry that carries no puuid
PartBody == [entries |-> <<[summonerId |-> 1], [puuid |-> PuuidOf(1, 6)]>>]

\* the body of a response that is not a success; the code does not read it
ErrorBody == [message |-> "error", entries |-> <<[puuid |-> PuuidOf(1, 7)]>>]

LadderBodies ==
    {[entries |-> l] : l \in PuuidListings} \cup {EmptyBody, NoEntriesBody, PartBody}

\* the last response _safe_get sees for a listing request (after any 429s)
LadderResponses ==
    {[status |-> 200, body |-> b] : b \in LadderBodies}
        \cup {[status |-> 404, body |-> ErrorBody]}

\* _safe_get passes every body on, whatever the status
safe_get_value_any(resp) == resp.body

\* _safe_get on a response that is not a 429: None unless the status is 200
safe_get_value(resp) == IF resp.status = 200 THEN resp.body ELSE None

\* no data counts as missing
NeverFalsy(data) == FALSE

\* a JSON array is kept as a record around its elements
EmptyList == [list |-> <<>>]

\* "if not data", "data or []": None, the empty object and the empty array
\* are falsy
Falsy(data) == data \in {None, EmptyBody, EmptyList}

\* get_ladder_puuids after its _safe_get:
\* [e["puuid"] for e in data.get("entries", []) if "puuid" in e]
get_ladder_puuids(data) ==
    IF Falsy(data)
    THEN <<>>
    ELSE LET entries == IF "entries" \in DOMAIN data THEN data.entries ELSE <<>>
             HasPuuid(e) == "puuid" \in DOMAIN e
             sel == SelectSeq(entries, HasPuuid)
         IN  [i \in 1..Len(sel) |-> sel[i].puuid]

\* the dedupe loop of seed_players over the first n elements of all_puuids
RECURSIVE DedupeFirst(_, _)
DedupeFirst(all, n) ==
    IF n = 0
    THEN <<>>
    ELSE LET d == DedupeFirst(all, n - 1)
         IN  IF InSeq(d, all[n]) THEN d ELSE Append(d, all[n])

\* the values seed_players is called with: None, one tier, or two tiers in
\* another order than the default one
TierArgs == {<<>>} \cup {<<t>> : t \in TierNames} \cup {<<Tiers[3], Tiers[1]>>}

\* seed_players(tiers): tiers = tiers or ["challenger", "grandmaster", "master"]
seed_players_call ==
    /\ UNCHANGED notSeedVars
    /\ spc = "idle"
    /\ sops < MaxSeedOps
    /\ sops' = sops + 1
    /\ \E arg \in TierArgs : tiersArg' = IF arg = <<>> THEN Tiers ELSE arg
    /\ ti' = 1
    /\ all_puuids' = <<>>
    /\ seedOrdered' = <<>>
    /\ oi' = 1
    /\ spc' = "tiers"
    /\ tableBefore' = plist
    /\ UNCHANGED <<plist, scrapeSeq, ladder, lastOp, vid, vdata, vcalls, vres>>

\* for tier in tiers: all_puuids.extend(await get_ladder_puuids(session, tier));
\* after the last tier, the dedupe loop
seed_players_fetch ==
    /\ UNCHANGED notSeedVars
    /\ spc = "tiers"
    /\ IF ti <= Len(tiersArg)
       THEN /\ all_puuids' = all_puuids
                  \o get_ladder_puuids(safe_get_value(ladder[tiersArg[ti]]))
            /\ ti' = ti + 1
            /\ UNCHANGED <<seedOrdered, spc>>
       ELSE /\ seedOrdered' = DedupeFirst(all_puuids, Len(all_puuids))
            /\ spc' = "insert"
            /\ UNCHANGED <<all_puuids, ti>>
    /\ UNCHANGED <<plist, scrapeSeq, ladder, tiersArg, oi, lastOp, tableBefore, vid,
                   vdata, vcalls, vres, sops>>

\* for p in ordered: self.db.insert_player(p); after the last one, return
seed_players_insert ==
    /\ UNCHANGED notSeedVars
    /\ spc = "insert"
    /\ IF oi <= Len(seedOrdered)
       THEN /\ plist' = insert_player(plist, seedOrdered[oi])
            /\ oi' = oi + 1
            /\ UNCHANGED <<spc, lastOp>>
       ELSE /\ spc' = "idle"
            /\ lastOp' = "seed"
            /\ UNCHANGED <<plist, oi>>
    /\ UNCHANGED <<scrapeSeq, ladder, tiersArg, ti, all_puuids, seedOrdered,
                   tableBefore, vid, vdata, vcalls, vres, sops>>

\* the answers _safe_get can give verify_player: a profile, or None
ProfileAnswers == {[name |-> "summoner"], None}

\* verify_player(puuid)
verify_player ==
    /\ UNCHANGED notSeedVars
    /\ spc = "idle"
    /\ sops < MaxSeedOps
    /\ sops' = sops + 1
    /\ lastOp' = "verify"
    /\ tableBefore' = plist
    /\ \E q \in VerifyIds :
         /\ vid' = q
         /\ IF InSeq(plist, q)
            THEN /\ vres' = TRUE
                 /\ vcalls' = 0
                 /\ vdata' = None
                 /\ UNCHANGED <<plist, scrapeSeq>>
            ELSE \E data \in ProfileAnswers :
                   /\ vdata' = data
                   /\ vcalls' = 1
                   /\ IF Falsy(data)
                      THEN /\ vres' = FALSE
                           /\ UNCHANGED <<plist, scrapeSeq>>
                      ELSE /\ plist' = insert_player(plist, q)
                           /\ scrapeSeq' = Append(scrapeSeq, q)
                           /\ vres' = TRUE
    /\ UNCHANGED <<ladder, spc, tiersArg, ti, all_puuids, seedOrdered, oi>>

InitSeed ==
    /\ IdleFiles
    /\ IdleStats
    /\ IdleLabel
    /\ IdleCrawl
    /\ IdleNet
    /\ SeedIdle
    /\ ladder \in [TierNames -> LadderResponses]

NextSeed ==
    \/ seed_players_call
    \/ seed_players_fetch
    \/ seed_players_insert
    \/ verify_player

SpecSeed == InitSeed /\ [][NextSeed]_vars

(***************************************************************************)
(* RiotAPIClient._safe_get under concurrent callers.  Every 429 answer     *)
(* makes the frame that got it sleep and call _safe_get again from inside  *)
(* its "async with self.sem", so a caller holds one slot per frame.        *)
(***************************************************************************)
Fetches == 1..NumFetches

\* the callers of _safe_get, by turns
Callers == <<"ladder", "ids", "detail">>

KindOf(f) == Callers[((f - 1) % Len(Callers)) + 1]

\* the statuses of an answer that is not a rate limit
FinalStatuses == {200, 404, 500}

\* the body of a 200 answer to each kind of request
SuccessBody(kind) ==
    CASE kind = "ladder" -> [entries |-> <<[puuid |-> PuuidOf(1, 6)]>>]
      [] kind = "ids" -> [list |-> <<1>>]
      [] OTHER -> [metadata |-> "match", info |-> "info"]

\* return data
get_match_ids_raw(data) == data

\* get_match_ids after its _safe_get: return data or []
get_match_ids(data) == IF Falsy(data) THEN EmptyList ELSE data

\* get_match_detail: return await self._safe_get(session, url)
get_match_detail(data) == data

\* what the caller of each kind returns for the data _safe_get gave it
Wrapped(kind, data) ==
    CASE kind = "ladder" -> get_ladder_puuids(data)
      [] kind = "ids" -> get_match_ids(data)
      [] OTHER -> get_match_detail(data)

\* the semaphore lets every caller in
SlotAlways(v) == TRUE

\* async with self.sem: a caller enters when a slot is free
SlotFree(v) == v > 0

NoFetch ==
    [pc |-> "idle", held |-> 0, left |-> 0, final |-> 200, data |-> None,
     result |-> None, cooled |-> 0]

\* a caller starts get_ladder_puuids / get_match_ids / get_match_detail; upstream
\* will answer it left times with 429 and then with the status final
safe_get_call(f) ==
    /\ UNCHANGED notNetVars
    /\ fetch[f].pc = "idle"
    /\ \E k \in 0..MaxRateLimits, st \in FinalStatuses :
         fetch' = [fetch EXCEPT ![f].pc = "acquire", ![f].left = k, ![f].final = st,
                                ![f].cooled = 0]
    /\ UNCHANGED sem

\* async with self.sem: ... session.get(url): the request goes out
safe_get_acquire(f) ==
    /\ UNCHANGED notNetVars
    /\ fetch[f].pc = "acquire"
    /\ SlotFree(sem)
    /\ sem' = sem - 1
    /\ fetch' = [fetch EXCEPT ![f].pc = "request", ![f].held = @ + 1]

\* the answer arrives: 429 -> sleep; not 200 -> return None; 200 -> r.json()
safe_get_response(f) ==
    /\ UNCHANGED notNetVars
    /\ fetch[f].pc = "request"
    /\ IF fetch[f].left > 0
       THEN fetch' = [fetch EXCEPT ![f].pc = "sleep", ![f].left = @ - 1]
       ELSE LET st == fetch[f].final
                resp == [status |-> st,
                         body |-> IF st = 200 THEN SuccessBody(KindOf(f))
                                  ELSE ErrorBody]
            IN  fetch' = [fetch EXCEPT
                             ![f].pc = IF st = 200 THEN "cooldown" ELSE "unwind",
                             ![f].data = safe_get_value(resp)]
    /\ UNCHANGED sem

\* await asyncio.sleep(wait) is over: return await self._safe_get(session, url)
safe_get_retry(f) ==
    /\ UNCHANGED notNetVars
    /\ fetch[f].pc = "sleep"
    /\ fetch' = [fetch EXCEPT ![f].pc = "acquire"]
    /\ UNCHANGED sem

\* await asyncio.sleep(self.cooldown) is over: return data
safe_get_cooldown(f) ==
    /\ UNCHANGED notNetVars
    /\ fetch[f].pc = "cooldown"
    /\ fetch' = [fetch EXCEPT ![f].pc = "unwind", ![f].cooled = @ + 1]
    /\ UNCHANGED sem

\* a frame returns and leaves its "async with self.sem"; when the outermost
\* frame has returned the caller has its data
safe_get_release(f) ==
    /\ UNCHANGED notNetVars
    /\ fetch[f].pc = "unwind"
    /\ sem' = sem + 1
    /\ fetch' = [fetch EXCEPT
                    ![f].held = @ - 1,
                    ![f].pc = IF fetch[f].held = 1 THEN "returned" ELSE "unwind",
                    ![f].result = IF fetch[f].held = 1
                                  THEN Wrapped(KindOf(f), fetch[f].data)
                                  ELSE @]

InitNet ==
    /\ IdleFiles
    /\ IdleStats
    /\ IdleCrawl
    /\ IdleLabel
    /\ IdleSeed
    /\ sem = SemLimit
    /\ fetch = [f \in Fetches |-> NoFetch]

NextNet ==
    \E f \in Fetches :
        \/ safe_get_call(f)
        \/ safe_get_acquire(f)
        \/ safe_get_response(f)
        \/ safe_get_retry(f)
        \/ safe_get_cooldown(f)
        \/ safe_get_release(f)

SpecNet == InitNet /\ [][NextNet]_vars

\* every coroutine that can run is run
SpecNetFair == SpecNet /\ WF_vars(NextNet)

(***************************************************************************)
(* Claims about the dual-copy protocol (SpecFiles)                         *)
(***************************************************************************)
\* C1 (as claimed): whenever a reader opens live_path, also in the middle of
\* promote_update_db and after a crash at any of its steps, it finds a complete
\* database file that is one of the consistent snapshots (the previous one or
\* the one being promoted); the live file is never absent or partially written.
C1_ReaderFindsSnapshot ==
    /\ Complete(seen)
    /\ seen \in published

\* C2: from the return of copy_live_db until promote_update_db starts, the live
\* file equals the live file at stage time, whatever the update commits meanwhile.
C2_LiveUntouchedUntilPromote ==
    fpc \in {"switch", "update", "promote_remove"} => live = stagedLive

C2_Witness ==
    /\ fpc = "promote_remove"
    /\ writesSince >= 2
    /\ update # live
    /\ seen = live

\* C3: copy_live_db followed by promote_update_db with no commit in between
\* leaves the live file equal to the live file before the stage, whether or not
\* copy_live_db found a stale working file.
C3_StageThenPromoteIsIdentity ==
    (fpc \in {"reopen", "done"} /\ writesSince = 0) => live = stagedLive

C3_Witness ==
    /\ fpc = "done"
    /\ writesSince = 0
    /\ staleAtStage = StaleDb
    /\ live = SeedDb

(***************************************************************************)
(* Claims about the sliding window (SpecStats)                             *)
(***************************************************************************)
\* C6 (as claimed): in every reachable state, also between two stat writes of
\* one update_player call and after a call that failed part-way, no player has
\* more rows in player_match_stats than the window size.
C6_AtMostKeepRows ==
    \A i \in 1..Len(StatPlayers) :
        Cardinality(RowsOf(stats, StatPlayers[i])) <= Keep

\* C7 (as claimed): after every completed update_player(p) the retained rows of p
\* are exactly the min(window, n) rows with the greatest timestamps among the n
\* rows ever written for p.
C7_RetainedAreNewestEver ==
    (upc = "idle" /\ outcome = "returned")
        => RowsOf(stats, last) = NewestRows(ever, last, Keep)

ParticipantSet(m) ==
    {detail[m].participants[i].puuid : i \in DOMAIN detail[m].participants}

\* C4: every match whose vector_complete flag is set has a player_features
\* row for each of the 10 puuids of its stored participant list, also after
\* process_match was killed part-way and run again.
C4_CompleteHasAllFeatures ==
    \A m \in DOMAIN mtab :
        (mtab[m].stored /\ mtab[m].vector_complete) =>
            /\ Len(mtab[m].puuids) = 10
            /\ \A i \in DOMAIN mtab[m].puuids : mtab[m].puuids[i] \in features

\* a match is complete whose process_match was killed between two of its
\* participants, after at least three of them, and run again from the start
C4_Witness ==
    \E m \in DOMAIN mtab :
        /\ mtab[m].stored
        /\ mtab[m].vector_complete
        /\ \E i \in DOMAIN kills :
              /\ kills[i].proc = "builder"
              /\ kills[i].at = "statics"
              /\ kills[i].match = m
              /\ kills[i].k > 3

\* C5: once vector_complete of a match reads true it reads true ever after,
\* under any sequence of insert_match, mark_complete, MatchCrawler.run and
\* FeatureBuilder.run on the store.
C5_CompleteIsNeverCleared ==
    [][\A m \in DOMAIN mtab :
          mtab[m].vector_complete => mtab'[m].vector_complete]_vars

\* the (teamId, teamPosition) upstream gave the puuid q in match m
AssignedTo(m, q) ==
    LET i == CHOOSE j \in DOMAIN detail[m].participants :
                 detail[m].participants[j].puuid = q
    IN  <<detail[m].participants[i].teamId,
          detail[m].participants[i].teamPosition>>

\* C9: every stored Match row lists exactly 10 puuids, the first 5 of team
\* 100 and the last 5 of team 200, each side in the order TOP, JUNGLE,
\* MIDDLE, BOTTOM, UTILITY with each role once, for every participants array.
C9_StoredListIsRoleOrdered ==
    \A m \in DOMAIN mtab :
        mtab[m].stored =>
            /\ Len(mtab[m].puuids) = 10
            /\ \A i \in 1..5 :
                  /\ AssignedTo(m, mtab[m].puuids[i]) = <<100, ROLES_ORDER[i]>>
                  /\ AssignedTo(m, mtab[m].puuids[i + 5]) = <<200, ROLES_ORDER[i]>>

\* the detail of match m is not of queue 420, or does not resolve to 10
\* participants
Rejected(m) ==
    \/ detail[m].queueId # 420
    \/ Len(order_puuids_by_role(detail[m].participants)) # 10

\* C10: for a match detail of another queue than 420, or one that resolves
\* to a number of participants other than 10, the crawler writes nothing: no
\* Match row, no Player row and no in_match flag for its participants (those
\* that are neither seeded nor in a stored match), and it is never complete.
C10_RejectedLeavesNoTrace ==
    \A m \in DOMAIN mtab :
        Rejected(m) =>
            /\ ~mtab[m].stored
            /\ ~mtab[m].vector_complete
            /\ \A q \in ParticipantSet(m) :
                  (/\ ~InSeq(SeedPlayers, q)
                   /\ \A n \in DOMAIN mtab : mtab[n].stored => q \notin ParticipantSet(n))
                      => /\ ~InSeq(plist, q)
                         /\ q \notin inMatch
                         /\ q \notin pending

\* the crawler has gone through a listing of a match of another queue and a
\* match with 9 resolved participants, and the players table holds the seed only
C10_Witness ==
    /\ active = "crawler"
    /\ cpc = "ids"
    /\ Len(cids) = 2
    /\ ci = 3
    /\ detail[cids[1]].queueId # 420
    /\ detail[cids[2]].queueId = 420
    /\ Len(order_puuids_by_role(detail[cids[2]].participants)) = 9
    /\ plist = SeedPlayers
    /\ \A m \in DOMAIN mtab : ~mtab[m].stored

ListedIn(t) ==
    IF ladder[t].status = 200 /\ "entries" \in DOMAIN ladder[t].body
    THEN LET HasPuuid(e) == "puuid" \in DOMAIN e
             sel == SelectSeq(ladder[t].body.entries, HasPuuid)
         IN  [i \in 1..Len(sel) |-> sel[i].puuid]
    ELSE <<>>

\* the listings of the first n requested tiers, one after the other
RECURSIVE ListedUpTo(_)
ListedUpTo(n) ==
    IF n = 0 THEN <<>> ELSE ListedUpTo(n - 1) \o ListedIn(tiersArg[n])

Rows(pl, q) == Cardinality({i \in DOMAIN pl : pl[i] = q})

FirstAt(seq, q) == CHOOSE i \in DOMAIN seq : seq[i] = q /\ \A j \in 1..(i - 1) : seq[j] # q

\* C12: after seed_players every identity of a fetched tier listing has
\* exactly one Player row, however often it is listed, and the identities
\* that were new are in the table in the order they were first seen across
\* the tiers.
C12_SeedOneRowInFirstSeenOrder ==
    (lastOp = "seed" /\ spc = "idle") =>
        LET listed == ListedUpTo(Len(tiersArg))
            New(q) == InSeq(listed, q) /\ ~InSeq(tableBefore, q)
        IN  /\ \A i \in DOMAIN listed : Rows(plist, listed[i]) = 1
            /\ \A i, j \in DOMAIN plist :
                  (New(plist[i]) /\ New(plist[j]) /\ i < j)
                      => FirstAt(listed, plist[i]) < FirstAt(listed, plist[j])

\* seeding returned after one identity was listed three times over two tiers,
\* the second-listed identity of the first tier being listed first in the other
C12_Witness ==
    /\ lastOp = "seed"
    /\ spc = "idle"
    /\ Len(tiersArg) >= 2
    /\ \E q, r \in LadderIds :
         /\ q # r
         /\ ListedIn(tiersArg[1]) = <<q, q>>
         /\ ListedIn(tiersArg[2]) = <<r, q>>
         /\ plist = <<q, r>>

RangeOf(seq) == {seq[i] : i \in DOMAIN seq}

C18_VerifyTrueIffRow ==
    (lastOp = "verify" /\ spc = "idle") =>
        /\ vres = InSeq(plist, vid)
        /\ Rows(plist, vid) <= 1
        /\ InSeq(tableBefore, vid) =>
              /\ vres
              /\ vcalls = 0
              /\ plist = tableBefore
        /\ ~InSeq(tableBefore, vid) =>
              /\ vcalls = 1
              /\ vdata # None => (vres /\ plist = Append(tableBefore, vid))
              /\ vdata = None => (~vres /\ plist = tableBefore)

\* verify_player returned false for an unknown identity, on a table with rows
C18_Witness ==
    /\ lastOp = "verify"
    /\ spc = "idle"
    /\ tableBefore # <<>>
    /\ ~InSeq(tableBefore, vid)
    /\ vdata = None
    /\ ~vres
    /\ vcalls = 1

InFlight == {f \in DOMAIN fetch : fetch[f].pc = "request"}

\* C13: for any number of concurrent _safe_get calls on one client the
\* number of upstream requests in flight is at most the semaphore limit,
\* requests re-issued after a rate-limit answer included.
C13_InFlightWithinLimit ==
    /\ Cardinality(InFlight) <= SemLimit
    /\ sem >= 0

\* a request re-issued after a 429 is in flight, all slots are taken and
\* another caller waits for one
C13_Witness ==
    /\ sem = 0
    /\ \E f \in InFlight : fetch[f].held >= 2
    /\ \E g \in DOMAIN fetch : fetch[g].pc = "acquire" /\ fetch[g].held = 0

\* C14: a fetch that gets k consecutive rate-limit answers and then another
\* answer eventually returns to its caller, for every k and every number of
\* concurrent fetches.
C14_EveryFetchReturns ==
    \A f \in Fetches : (fetch[f].pc # "idle") ~> (fetch[f].pc = "returned")

\* C15: for an answer that is neither 200 nor 429 _safe_get returns None and
\* raises nothing, and the caller built on it returns an empty list
\* (get_ladder_puuids, get_match_ids) or None (get_match_detail).
C15_FailureGivesAbsent ==
    \A f \in DOMAIN fetch :
        (fetch[f].pc \in {"unwind", "returned"} /\ fetch[f].final # 200) =>
            /\ fetch[f].data = None
            /\ fetch[f].pc = "returned" =>
                  CASE KindOf(f) = "ladder" -> fetch[f].result = <<>>
                    [] KindOf(f) = "ids" -> fetch[f].result = [list |-> <<>>]
                    [] OTHER -> fetch[f].result = None

\* a caller of each kind has returned from an answer that was not a success,
\* one of them after a rate limit
C15_Witness ==
    /\ \A f \in 1..3 : fetch[f].pc = "returned" /\ fetch[f].final # 200
    /\ fetch[1].final = 404
    /\ fetch[2].final = 500
    /\ fetch[3].left = 0

(***************************************************************************)
(* Claims about the termination of the runs (SpecRunsFair)                 *)
(***************************************************************************)
\* C16: MatchCrawler.run eventually returns, from any store state and for
\* any finite upstream whose fetches are all answered: with the match count
\* at the target or because no players remain.
C16_CrawlerReturns == (active = "crawler") ~> (active # "crawler")

\* C17: FeatureBuilder.run eventually returns when every fetch is answered,
\* for every outcome of process_match, the one where the detail of the
\* selected match is unavailable included.
C17_BuilderReturns == (active = "builder") ~> (active # "builder")

\* C22: no frame of _safe_get leaves its "async with self.sem" (releases
\* its slot) unless the call has waited the cooldown after its request was
\* answered, whatever the answer was.
C22_CooldownBeforeRelease ==
    [][\A f \in Fetches :
          fetch'[f].held < fetch[f].held => fetch[f].cooled > 0]_vars

(***************************************************************************)
(* Claims about MatchCrawler.run against any upstream (SpecUpstream)       *)
(***************************************************************************)
\* a detail the claim calls malformed: of another queue type, with a
\* required field missing, or with a participant count other than ten
Malformed(info) ==
    \/ info.queueId # RankedSoloQueue
    \/ "teams" \notin DOMAIN info
    \/ "participants" \notin DOMAIN info
    \/ Len(info.participants) # TeamSlots

\* C21: when the detail of a match id of the listing is malformed, the step
\* of MatchCrawler.run on that id stores no row for it, does not end the run
\* and goes on to the next id of the same listing of the same player; past
\* the last id of the listing the player is marked refreshed.
C21_MalformedDetailIsSkipped ==
    [][/\ (/\ active = "crawler"
           /\ cpc = "ids"
           /\ ci <= Len(cids)
           /\ ~mtab[cids[ci]].stored
           /\ Malformed(detail[cids[ci]]))
          => /\ ~mtab'[cids[ci]].stored
             /\ active' = "crawler"
             /\ cpc' = "ids"
             /\ ci' = ci + 1
             /\ cids' = cids
             /\ batch' = batch
             /\ bi' = bi
       /\ (active = "crawler" /\ cpc = "ids" /\ ci > Len(cids))
          => InSeq(scrapeSeq', batch[bi])]_vars

\* the win indicator in the label stored for match m: the label is
\* 0.55 g1/(g1+g2) + 0.45 w, so w = 1 exactly when it exceeds the gold part
LabelWin(m) ==
    LET g1 == GoldOfTeam(detail[m].participants, 100)
        tot == g1 + GoldOfTeam(detail[m].participants, 200)
    IN  100 * mtab[m].label.num * tot > 55 * g1 * mtab[m].label.den

\* C26: for every match MatchCrawler stored, whatever the order of the
\* detail's teams array, the win indicator in the stored label is 1 exactly
\* when the stored winner_side is blue, and 0 exactly when it is red.
C26_LabelWinAgreesWithWinnerSide ==
    \A m \in CrawlMatches :
        mtab[m].stored =>
            /\ LabelWin(m) <=> mtab[m].winner_side = "blue"
            /\ ~LabelWin(m) <=> mtab[m].winner_side = "red"

\* C30: MatchCrawler.run inserts no further match once the stored count has
\* reached the target, also in the middle of a player batch or of one
\* player's listing; so the count at its return is at most the larger of the
\* target and the count at its start.
C30_NoInsertPastTarget ==
    [][(active = "crawler" /\ match_count(mtab) >= target)
          => match_count(mtab') <= match_count(mtab)]_vars

(***************************************************************************)
(* Claims about the rows of the crawler (SpecCrawl)                        *)
(***************************************************************************)
\* C23: once a match id is stored, no step of MatchCrawler.run inserts or
\* replaces its row (participants, label, winner, feature-complete flag stay
\* as they are), and the step of the loop on a stored id, whichever player
\* lists it, only moves on to the next id: its detail is not fetched again.
C23_StoredMatchIsNeverRevisited ==
    [][active = "crawler" =>
          /\ \A m \in CrawlMatches : mtab[m].stored => mtab'[m] = mtab[m]
          /\ (cpc = "ids" /\ ci <= Len(cids) /\ mtab[cids[ci]].stored)
                => \/ active' = "none"
                   \/ cpc' = "ids" /\ ci' = ci + 1 /\ pk' = pk]_vars

\* a later run of the crawler has passed over a listed id whose row was
\* stored by an earlier run and completed by the feature builder since
C23_Witness ==
    /\ active = "crawler"
    /\ cpc = "ids"
    /\ ci > 1
    /\ mtab[cids[ci - 1]].stored
    /\ mtab[cids[ci - 1]].vector_complete

\* C28: in every reachable state of the store, whatever runs of the crawler
\* and of the feature builder came before and wherever they were killed, a
\* Player row has has_features = 1 if and only if player_features holds a
\* row for that puuid.
C28_HasFeaturesIffFeatureRow ==
    \A k \in DOMAIN plist : plist[k] \in hasFeatures <=> plist[k] \in features

\* the place of player q in the order of the last_scraped timestamps
RefreshedAt(q) == CHOOSE i \in DOMAIN scrapeSeq : scrapeSeq[i] = q

\* MatchCrawler.run holds the batch player_batches has just returned
BatchFresh == active = "crawler" /\ cpc = "player" /\ bi = 1

\* C24: player_batches(limit) returns min(limit, number of players) distinct
\* players, the never-refreshed ones first and then the refreshed ones by
\* ascending timestamp; no player left out is never-refreshed while a
\* refreshed one is in the batch, and none left out was refreshed earlier
\* than a refreshed one in the batch.
C24_BatchIsLeastRecentlyRefreshed ==
    BatchFresh =>
        /\ Len(batch) = Least(BatchLimit, Len(plist))
        /\ \A i \in DOMAIN batch : InSeq(plist, batch[i])
        /\ \A i, j \in DOMAIN batch : i # j => batch[i] # batch[j]
        /\ \A i, j \in DOMAIN batch :
              i < j =>
                 /\ InSeq(scrapeSeq, batch[i]) => InSeq(scrapeSeq, batch[j])
                 /\ (InSeq(scrapeSeq, batch[i]) /\ InSeq(scrapeSeq, batch[j]))
                       => RefreshedAt(batch[i]) < RefreshedAt(batch[j])
        /\ \A k \in DOMAIN plist :
              ~InSeq(batch, plist[k]) =>
                 \A i \in DOMAIN batch :
                    InSeq(scrapeSeq, batch[i]) =>
                       /\ InSeq(scrapeSeq, plist[k])
                       /\ RefreshedAt(batch[i]) < RefreshedAt(plist[k])

\* a batch of the limit's size was returned from a table with more players:
\* it holds never-refreshed players only, and a refreshed player and a
\* never-refreshed one are left out
C24_Witness ==
    /\ BatchFresh
    /\ Len(batch) = BatchLimit
    /\ Len(plist) > BatchLimit
    /\ \A i \in DOMAIN batch : ~InSeq(scrapeSeq, batch[i])
    /\ \E k \in DOMAIN plist : ~InSeq(batch, plist[k]) /\ InSeq(scrapeSeq, plist[k])
    /\ \E k \in DOMAIN plist : ~InSeq(batch, plist[k]) /\ ~InSeq(scrapeSeq, plist[k])

\* MatchCrawler.run is about to call insert_player(pid, discovered=1) for a
\* participant that has a Player row
InsertOfExisting ==
    /\ active = "crawler"
    /\ cpc = "players"
    /\ pk <= Len(MetadataParticipants(detail[cids[ci]]))
    /\ InSeq(plist, MetadataParticipants(detail[cids[ci]])[pk])

\* C25: insert_player on an identity that has a Player row adds no second
\* row and leaves the row's tier, discovered, in_match, has_features and
\* last_scraped as they are, whatever discovered value is passed.
C25_InsertOfExistingChangesNothing ==
    [][(InsertOfExisting /\ active' = "crawler") =>
          LET pid == MetadataParticipants(detail[cids[ci]])[pk]
          IN  /\ plist' = plist
              /\ Rows(plist', pid) = 1
              /\ pid \in discovered' <=> pid \in discovered
              /\ pid \in inMatch' <=> pid \in inMatch
              /\ pid \in hasFeatures' <=> pid \in hasFeatures
              /\ pid \in tiered' <=> pid \in tiered
              /\ scrapeSeq' = scrapeSeq]_vars

\* insert_player(pid, discovered=1) was called for the seeded player, whose
\* row has discovered = 0: the row is still the only one and still has 0
C25_Witness ==
    /\ active = "crawler"
    /\ cpc = "players"
    /\ pk > 1
    /\ MetadataParticipants(detail[cids[ci]])[pk - 1] = SeedPlayers[1]
    /\ Rows(plist, SeedPlayers[1]) = 1
    /\ SeedPlayers[1] \notin discovered

(***************************************************************************)
(* Claims about promote_update_db called on its own (SpecPromote)          *)
(***************************************************************************)
\* C27: promote_update_db() called when no working file exists fails
\* without deleting or changing the live file: no step of such a call
\* changes the file at live_path.
C27_PromoteWithoutWorkingFileKeepsLive ==
    [][(fpc \in {"promote_remove", "promote_open"} /\ ~update.exists)
          => live' = live]_vars

(***************************************************************************)
(* Claims about the frame of the refresh (SpecStats)                       *)
(***************************************************************************)
\* C29: no step of update_player(p), its delete_old_matches(p, keep)
\* included, changes the stat rows of another player or the players,
\* matches and player_features tables' rows; delete_old_matches only removes
\* rows.
C29_RefreshTouchesOnlyItsPlayer ==
    [][queue # <<>> =>
          /\ \A i \in DOMAIN StatPlayers :
                StatPlayers[i] # Head(queue) =>
                   RowsOf(stats', StatPlayers[i]) = RowsOf(stats, StatPlayers[i])
          /\ mtab' = mtab
          /\ features' = features
          /\ plist' = plist
          /\ (upc = "loop" /\ idx > Len(ids)) => stats' \subseteq stats]_vars

\* update_player returned for a player after delete_old_matches removed rows
\* of that player, while the other player has rows in the table
C29_Witness ==
    /\ upc = "idle"
    /\ outcome = "returned"
    /\ \E r \in ever : r.puuid = last /\ r \notin stats
    /\ \E r \in stats : r.puuid # last

====
